---- MODULE Spec2Model ----
(***************************************************************************)
(* Model of Distributor::distribute                                        *)
(* (contracts/defindex-distributor/src/lib.rs).                            *)
(*                                                                         *)
(* One invocation of distribute is followed from the host's authorization  *)
(* check to its return or its panic.  The invocation is cut at its calls   *)
(* into the vault (deposit, df-token transfer, valuation query) so that    *)
(* the order of those calls and the contract's transient custody are       *)
(* visible.  A panic anywhere reverts every ledger effect of the           *)
(* invocation.                                                             *)
(***************************************************************************)
EXTENDS Integers, Sequences, FiniteSets, TLC

\* ------------------------------------------------------------------------
\* Bounds of the model
\* ------------------------------------------------------------------------

\* Largest value of the signed integer type that stands for i128.
I128_MAX == 127

\* Longest recipient list enumerated entry by entry.
MaxLen == 3

\* Underlying asset held by the caller before the call.
CallerFunds == 100

\* df tokens the contract may already hold before the call.
PreDf == 1

\* Largest minted amount / valuation the vault reports besides the total.
MaxMint == 4

MaxBasis == 4

\* The vault's valuation answers go down to minus this value.
MaxNegativeBasis == 1

\* ------------------------------------------------------------------------
\* Program constants
\* ------------------------------------------------------------------------

MAX_RECIPIENTS == 100

I128_MIN == (0 - I128_MAX) - 1

\* Addresses.  CALLER is the `caller` argument, SELF is
\* e.current_contract_address(), VAULT is the `vault` argument.
CALLER == 10

SELF == 11

VAULT == 12

Users == {13, 14, 15}

\* The underlying asset's contract.
ASSET == 16

\* Option<T>
None == << >>

Some(v) == << v >>

\* ------------------------------------------------------------------------
\* Arithmetic
\* ------------------------------------------------------------------------

InI128(v) == v >= I128_MIN /\ v <= I128_MAX

\* Variant of CheckedAdd: wrapping two's-complement addition.
WrappingAdd(a, b) ==
    Some(((a + b - I128_MIN) % (I128_MAX - I128_MIN + 1)) + I128_MIN)

\* i128::checked_add
CheckedAdd(a, b) == IF InI128(a + b) THEN Some(a + b) ELSE None

\* i128::checked_sub
CheckedSub(a, b) == IF InI128(a - b) THEN Some(a - b) ELSE None

\* Floor of p / q for q # 0, rounding towards minus infinity.
DivFloor(p, q) == IF q > 0 THEN p \div q ELSE (0 - p) \div (0 - q)

\* Variant of FixedDivFloor: a zero divisor gives a zero quotient.
FixedDivFloorZeroOnZero(x, y, denominator) ==
    IF y = 0 THEN Some(0)
    ELSE LET q == DivFloor(x * denominator, y)
         IN  IF InI128(q) THEN Some(q) ELSE None

\* Variant of FixedDivFloor: rounds half up.
FixedDivRound(x, y, denominator) ==
    IF y = 0 THEN None
    ELSE LET q == DivFloor(2 * x * denominator + y, 2 * y)
         IN  IF InI128(q) THEN Some(q) ELSE None

\* Variant of FixedDivFloor: divides without scaling by the denominator.
FixedDivFloorUnscaled(x, y, denominator) ==
    IF y = 0 THEN None
    ELSE LET q == DivFloor(x, y)
         IN  IF InI128(q) THEN Some(q) ELSE None

\* Variant of FixedDivFloor: rounds the quotient up.
FixedDivCeil(x, y, denominator) ==
    IF y = 0 THEN None
    ELSE LET q == 0 - DivFloor(0 - (x * denominator), y)
         IN  IF InI128(q) THEN Some(q) ELSE None

\* x.fixed_div_floor(&e, &y, &denominator) = floor(x * denominator / y);
\* panics on a zero divisor or when the quotient does not fit i128.
FixedDivFloor(x, y, denominator) ==
    IF y = 0 THEN None
    ELSE LET q == DivFloor(x * denominator, y)
         IN  IF InI128(q) THEN Some(q) ELSE None

\* Variant of IsLast: compares the index itself with n.
IsLastOffByOne(i, n) == i = n

\* let is_last = i.checked_add(1).map_or(false, |next| next == n);
IsLast(i, n) == i + 1 = n

\* ------------------------------------------------------------------------
\* 1. Validation (lib.rs 64-91)
\* ------------------------------------------------------------------------

Failed(msg) == [err |-> msg, total |-> 0, seen |-> {}]

\* Variant of ValidateStep: the duplicate check comes before the amount check.
ValidateStepDuplicateFirst(st, r, vault) ==
    IF r.address \in st.seen
    THEN Failed("duplicate recipient address")
    ELSE IF r.amount <= 0
    THEN Failed("each recipient amount must be positive")
    ELSE IF r.address = vault
    THEN Failed("recipient address must not be the vault")
    ELSE LET v == CheckedAdd(st.total, r.amount)
         IN  IF v = None THEN Failed("total overflow")
             ELSE [err |-> "ok", total |-> v[1],
                   seen |-> st.seen \cup {r.address}]

\* Variant of ValidateStep: no duplicate check.
ValidateStepNoDuplicateCheck(st, r, vault) ==
    IF r.amount <= 0
    THEN Failed("each recipient amount must be positive")
    ELSE IF r.address = vault
    THEN Failed("recipient address must not be the vault")
    ELSE LET v == CheckedAdd(st.total, r.amount)
         IN  IF v = None THEN Failed("total overflow")
             ELSE [err |-> "ok", total |-> v[1],
                   seen |-> st.seen \cup {r.address}]

\* One iteration of the loop of lines 76-91 on recipient r, with the
\* accounts seen and the total so far in st.
ValidateStep(st, r, vault) ==
    IF r.amount <= 0
    THEN Failed("each recipient amount must be positive")
    ELSE IF r.address = vault
    THEN Failed("recipient address must not be the vault")
    ELSE IF r.address \in st.seen
    THEN Failed("duplicate recipient address")
    ELSE LET v == CheckedAdd(st.total, r.amount)
         IN  IF v = None THEN Failed("total overflow")
             ELSE [err |-> "ok", total |-> v[1],
                   seen |-> st.seen \cup {r.address}]

RECURSIVE ValidateFrom(_, _, _, _)
ValidateFrom(rs, vault, k, st) ==
    IF k > Len(rs) \/ st.err # "ok" THEN st
    ELSE ValidateFrom(rs, vault, k + 1, ValidateStep(st, rs[k], vault))

\* Variant of Validate: a list of exactly the maximum length is rejected.
ValidateMaxExclusive(rs, vault) ==
    IF Len(rs) = 0 THEN Failed("recipients must not be empty")
    ELSE IF Len(rs) >= MAX_RECIPIENTS
         THEN Failed("too many recipients (max 100)")
    ELSE ValidateFrom(rs, vault, 1, [err |-> "ok", total |-> 0, seen |-> {}])

Validate(rs, vault) ==
    IF Len(rs) = 0 THEN Failed("recipients must not be empty")
    ELSE IF Len(rs) > MAX_RECIPIENTS
         THEN Failed("too many recipients (max 100)")
    ELSE ValidateFrom(rs, vault, 1, [err |-> "ok", total |-> 0, seen |-> {}])

\* ------------------------------------------------------------------------
\* Ledger balances: a map from address to amount, absent meaning 0.
\* ------------------------------------------------------------------------

Bal(b, a) == IF a \in DOMAIN b THEN b[a] ELSE 0

SetBal(b, a, v) ==
    [x \in (DOMAIN b \ {a}) \cup (IF v = 0 THEN {} ELSE {a}) |->
        IF x = a THEN v ELSE b[x]]

\* i128 arithmetic of a build without overflow checks.
Wrap(v) == ((v - I128_MIN) % (I128_MAX - I128_MIN + 1)) + I128_MIN

\* test.rs 458-465, the transfer of the vault's df token: both balances are
\* read, then `from` is set to f - amount and `to` to t + amount, in that
\* order; no sign or balance check is made.  An i128 overflow panics in a
\* build with overflow checks and wraps in one without (`wraps`).
TokenTransfer(b, from, to, amount, wraps) ==
    LET f == Bal(b, from)
        t == Bal(b, to)
    IN  IF InI128(f - amount) /\ InI128(t + amount)
        THEN Some(SetBal(SetBal(b, from, f - amount), to, t + amount))
        ELSE IF wraps
        THEN Some(SetBal(SetBal(b, from, Wrap(f - amount)), to, Wrap(t + amount)))
        ELSE None

\* ------------------------------------------------------------------------
\* Inputs
\* ------------------------------------------------------------------------

RecipientAddrs == Users \cup {SELF, VAULT}

Amounts == {0, 1, 2, I128_MAX}

Recipient == [address : RecipientAddrs, amount : Amounts]

ShortLists == UNION {[1..k -> Recipient] : k \in 0..MaxLen}

\* k distinct fresh accounts with amount 1 each.
LongList(k) == [j \in 1..k |-> [address |-> ASSET + j, amount |-> 1]]

\* A list one longer than the maximum whose first amount is not positive.
TooLongAndBad == [LongList(MAX_RECIPIENTS + 1) EXCEPT ![1].amount = 0]

RecipientLists ==
    ShortLists
        \cup {LongList(MAX_RECIPIENTS), LongList(MAX_RECIPIENTS + 1), TooLongAndBad}

\* The authorization the transaction carries: who signed the distribute
\* invocation and which nested invocations the signature covers.
\* "deposit" is vault.deposit(.., caller, ..) with the vault's pull of the
\* underlying asset, "transfer" is vault.transfer(caller, contract, minted).
\* distribute itself checks the signer only; what the vault makes of the
\* nested entries is the vault's business.
SubInvocations == {"deposit", "transfer"}

\* The tree the auth tests sign: distribute with the one nested invocation
\* asset.transfer(caller, contract, total).
TestAuthTree == [signer |-> "caller", sub |-> {"asset_transfer"}]

AuthTrees ==
    {[signer |-> "none", sub |-> {}],
     [signer |-> "other", sub |-> SubInvocations],
     TestAuthTree}
    \cup {[signer |-> "caller", sub |-> s] : s \in {{}, SubInvocations}}

\* Balances before the call.
PreUnderlying == [a \in {CALLER} |-> CallerFunds]

PreDfBalances == {SetBal(<< >>, SELF, v) : v \in {0, PreDf}}

\* ------------------------------------------------------------------------
\* State
\* ------------------------------------------------------------------------

VARIABLES
    pc,            \* position in distribute
    auth,          \* authorization carried by the transaction
    recipients,    \* the `recipients` argument
    undBal,        \* balances of the underlying asset
    dfBal,         \* balances of the vault's df token
    preUnd,        \* undBal before the call
    preDf,         \* dfBal before the call
    invocation,    \* number of the invocation in progress
    committed,     \* the ledger as the last finished invocation left it
    total,         \* `total`
    minted,        \* `df_tokens_minted`
    assetAmounts,  \* `asset_amounts`
    basis,         \* `underlying_for_minted`
    distributed,   \* `distributed`
    results,       \* `results`
    i,             \* `i`
    userDf,        \* `user_df` of the recipient being processed
    grants,        \* entries given to authorize_as_current_contract, not yet used up
    events,        \* events published by the contract
    calls,         \* calls made into other contracts and the host, in order
    rets,          \* how each call of `calls` returned: "ok" or "failed"
    err            \* panic message, or "none"

vars == << pc, auth, recipients, undBal, dfBal, preUnd, preDf, invocation,
           committed, total, minted, assetAmounts, basis, distributed, results,
           i, userDf, grants, events, calls, rets, err >>

args == << auth, recipients, preUnd, preDf, invocation, committed >>

locals == << total, minted, assetAmounts, basis, distributed, results, i,
            userDf >>

\* The lists of 100 and 101 entries are there for the checks on the length;
\* they are called with one authorization tree per signer and on a df ledger
\* without balances.
Init ==
    /\ pc = "require_auth"
    /\ auth \in AuthTrees
    /\ recipients \in RecipientLists
    /\ preUnd = PreUnderlying
    /\ preDf \in PreDfBalances
    /\ Len(recipients) > MaxLen =>
          (auth.sub = SubInvocations \/ auth.signer = "none") /\ preDf = << >>
    /\ undBal = preUnd
    /\ dfBal = preDf
    /\ total = 0
    /\ minted = 0
    /\ assetAmounts = << >>
    /\ basis = 0
    /\ distributed = 0
    /\ results = << >>
    /\ i = 0
    /\ userDf = 0
    /\ grants = << >>
    /\ events = << >>
    /\ calls = << >>
    /\ rets = << >>
    /\ invocation = 1
    /\ committed = << preUnd, preDf >>
    /\ err = "none"

\* ------------------------------------------------------------------------
\* Panic: the host reverts the invocation.
\* ------------------------------------------------------------------------

\* Variant of RolledBack: the effects made so far are kept.
RolledBackNothing(pre, cur) == cur

\* Ledger state the host restores when the invocation panics.
RolledBack(pre, cur) == pre

Panic(msg) ==
    /\ pc' = "aborted"
    /\ err' = msg
    /\ undBal' = RolledBack(preUnd, undBal)
    /\ dfBal' = RolledBack(preDf, dfBal)
    /\ results' = << >>
    /\ grants' = << >>
    /\ events' = << >>
    /\ UNCHANGED << args, total, minted, assetAmounts, basis, distributed, i,
                    userDf >>

\* ------------------------------------------------------------------------
\* distribute, step by step
\* ------------------------------------------------------------------------

\* Variant of Authorized: the signature has to cover the nested deposit and
\* transfer too.
AuthorizedWithNested(tree) ==
    tree.signer = "caller" /\ SubInvocations \subseteq tree.sub

\* Variant of Authorized: any signature is accepted.
AuthorizedAnySigner(tree) == tree.signer # "none"

\* caller.require_auth()
Authorized(tree) == tree.signer = "caller"

RequireAuth ==
    /\ pc = "require_auth"
    /\ IF Authorized(auth)
       THEN /\ pc' = "validate"
            /\ UNCHANGED << args, undBal, dfBal, locals, grants, events,
                            calls, rets, err >>
       ELSE /\ Panic("unauthorized")
            /\ UNCHANGED << calls, rets >>

\* Lines 64-91.
ValidateInput ==
    /\ pc = "validate"
    /\ LET v == Validate(recipients, VAULT)
       IN  IF v.err = "ok"
           THEN /\ pc' = "deposit"
                /\ total' = v.total
                /\ UNCHANGED << args, undBal, dfBal, minted, assetAmounts, basis,
                                distributed, results, i, userDf, grants,
                                events, calls, rets, err >>
           ELSE /\ Panic(v.err)
                /\ UNCHANGED << calls, rets >>

\* Variant of DepositCall: asks for no minimum.
DepositCallNoMin(t) ==
    [fn |-> "deposit", args |-> << << t >>, << 0 >>, CALLER, TRUE >>]

DepositCall(t) ==
    [fn |-> "deposit", args |-> << << t >>, << t >>, CALLER, TRUE >>]

MintChoices(t) == (0..MaxMint) \cup {t}

\* Variant of DepositResult: a failed deposit counts as zero units minted.
DepositResultOrZero(ok, m) == IF ok THEN Some(m) ELSE Some(0)

\* Lines 96-102: let (_, minted, _) = vault_client.deposit(..) is the
\* panicking client call; a deposit the vault fails yields no value.
DepositResult(ok, m) == IF ok THEN Some(m) ELSE None

\* Lines 96-102: vault_client.deposit(..).  The vault mints df tokens to the
\* caller.  A vault that pulls `total` of the underlying asset from the caller
\* (doc comment, lines 44-47) needs the caller to own that much; the
\* repository's vault (test.rs 409-437) mints without pulling and without
\* looking at the caller's funds.  Either vault may reject the deposit.
Deposit ==
    /\ pc = "deposit"
    /\ calls' = Append(calls, DepositCall(total))
    /\ \E accepted \in BOOLEAN, pulls \in BOOLEAN, m \in MintChoices(total) :
          LET ok == accepted /\ (pulls => Bal(undBal, CALLER) >= total)
              r == DepositResult(ok, m)
          IN  /\ rets' = Append(rets, IF ok THEN "ok" ELSE "failed")
              /\ IF r = None
                 THEN Panic("deposit failed")
                 ELSE
                   /\ pc' = "pull"
                   /\ minted' = r[1]
                   /\ undBal' = IF ok /\ pulls
                                THEN SetBal(SetBal(undBal, CALLER,
                                                   Bal(undBal, CALLER) - total),
                                            VAULT, Bal(undBal, VAULT) + total)
                                ELSE undBal
                   /\ dfBal' = IF ok
                               THEN SetBal(dfBal, CALLER, Bal(dfBal, CALLER) + m)
                               ELSE dfBal
                   /\ UNCHANGED << args, total, assetAmounts, basis,
                                   distributed, results,
                                   i, userDf, grants, events, err >>

TransferCall(from, to, amount) ==
    [fn |-> "transfer", args |-> << from, to, amount >>]

\* Line 106: the amount moved from the caller to the contract is `minted`.
PullAmount(t, m) == m

\* Lines 105-106: df_token.transfer(&caller, &current_contract, &minted).
\* The token may reject the transfer.
PullMinted ==
    /\ pc = "pull"
    /\ calls' = Append(calls, TransferCall(CALLER, SELF, PullAmount(total, minted)))
    /\ \E accepted \in BOOLEAN, wraps \in BOOLEAN :
           LET t == TokenTransfer(dfBal, CALLER, SELF,
                                  PullAmount(total, minted), wraps)
           IN
           IF accepted /\ t # None
           THEN /\ pc' = "valuation"
                /\ rets' = Append(rets, "ok")
                /\ dfBal' = t[1]
                /\ UNCHANGED << args, undBal, locals, grants, events, err >>
           ELSE /\ Panic("transfer failed")
                /\ rets' = Append(rets, "failed")

ValuationCall(m) == [fn |-> "get_asset_amounts_per_shares", args |-> << m >>]

\* i128 `/`: the quotient rounded towards zero, for q > 0.
TruncDiv(p, q) == IF p >= 0 THEN p \div q ELSE 0 - ((0 - p) \div q)

\* test.rs 443-454 in a build without overflow checks: the product
\* vault_shares * total_und wraps before it is divided by total_sup.
VaultValuation(shares, und, sup) ==
    IF sup = 0 THEN 0 ELSE TruncDiv(Wrap(shares * und), sup)

\* What the vault may answer: a vector of no element, of one element, or
\* of two.  The one element is any i128, negative ones included; among them
\* is the answer of the repository's vault after a deposit of t that minted
\* m, which is t unless the product wraps.
BasisChoices(t, m) ==
    {<< >>, << t, 0 >>}
        \cup {<< b >> : b \in ((0 - MaxNegativeBasis)..MaxBasis)
                                \cup {t, VaultValuation(m, t, m)}}

\* Variant of GetFirst: the last element.
GetLast(v) == IF Len(v) = 0 THEN None ELSE Some(v[Len(v)])

\* Line 118: asset_amounts.get(0).
GetFirst(v) == IF Len(v) = 0 THEN None ELSE Some(v[1])

\* Variant of DistributedStart: the counter goes on from the value the
\* invocation before left.
DistributedCarried == distributed

\* Line 124: let mut distributed: i128 = 0.
DistributedStart == 0

\* Lines 116-126.  The call to the vault may itself fail (in a build with
\* overflow checks the repository's vault panics when shares * underlying
\* overflows, test.rs 443-454), and the invocation with it.
Valuation ==
    /\ pc = "valuation"
    /\ calls' = Append(calls, ValuationCall(minted))
    /\ \E answer \in BasisChoices(total, minted), failed \in BOOLEAN :
          IF failed
          THEN /\ Panic("valuation failed")
               /\ rets' = Append(rets, "failed")
          ELSE
          IF GetFirst(answer) # None
          THEN /\ pc' = "share"
               /\ rets' = Append(rets, "ok")
               /\ assetAmounts' = answer
               /\ basis' = GetFirst(answer)[1]
               /\ distributed' = DistributedStart
               /\ results' = << >>
               /\ i' = 0
               /\ UNCHANGED << args, undBal, dfBal, total, minted, userDf,
                               grants, events, err >>
          ELSE /\ Panic("vault must have at least one asset")
               /\ rets' = Append(rets, "empty")

\* Variant of ShareOf: the last recipient gets a floor share like the others.
ShareOfFloorForAll(amount, last, m, b, dist) ==
    LET s == FixedDivFloor(amount, b, m)
    IN  IF s = None
        THEN [err |-> "fixed point arithmetic error", df |-> 0]
        ELSE [err |-> "ok", df |-> s[1]]

\* Lines 132-144: user_df, or the panic message.
ShareOf(amount, last, m, b, dist) ==
    IF last
    THEN LET s == CheckedSub(m, dist)
         IN  IF s = None
             THEN [err |-> "underflow distributing last recipient", df |-> 0]
             ELSE [err |-> "ok", df |-> s[1]]
    ELSE LET s == FixedDivFloor(amount, b, m)
         IN  IF s = None
             THEN [err |-> "fixed point arithmetic error", df |-> 0]
             ELSE [err |-> "ok", df |-> s[1]]

\* Lines 128-144.
ComputeShare ==
    /\ pc = "share"
    /\ LET r == recipients[i + 1]
           s == ShareOf(r.amount, IsLast(i, Len(recipients)), minted, basis,
                        distributed)
       IN  IF s.err = "ok"
           THEN /\ pc' = "authorize"
                /\ userDf' = s.df
                /\ UNCHANGED << args, undBal, dfBal, total, minted,
                                assetAmounts, basis,
                                distributed, results, i, grants, events,
                                calls, rets, err >>
           ELSE /\ Panic(s.err)
                /\ UNCHANGED << calls, rets >>

\* Variant of GrantFor: names the caller as the sender.
GrantForCaller(to, amount) ==
    [contract |-> VAULT, fn_name |-> "transfer",
     args |-> << CALLER, to, amount >>, sub_invocations |-> << >>]

\* The InvokerContractAuthEntry of lines 164-179.
GrantFor(to, amount) ==
    [contract |-> VAULT, fn_name |-> "transfer",
     args |-> << SELF, to, amount >>, sub_invocations |-> << >>]

\* Variant of GrantEntries: the entry is given twice.
GrantEntriesTwice(g) == << g, g >>

\* Lines 164, 179: the vec! handed to authorize_as_current_contract holds
\* the one entry.
GrantEntries(g) == << g >>

\* The call's one argument is the vector of entries.
AuthorizeCall(entries) ==
    [fn |-> "authorize_as_current_contract", args |-> << entries >>]

\* An entry covers a call of the function it names, on the contract it
\* names, with the arguments it names.
Covers(g, contract, call) ==
    /\ g.contract = contract
    /\ g.fn_name = call.fn
    /\ g.args = call.args

\* The entries left after the contract made `call` on `contract`: the call
\* uses up the first entry that covers it.
ConsumeGrant(gs, contract, call) ==
    LET m == {j \in 1..Len(gs) : Covers(gs[j], contract, call)}
    IN  IF m = {} THEN gs
        ELSE LET f == CHOOSE j \in m : \A h \in m : j <= h
             IN  SubSeq(gs, 1, f - 1) \o SubSeq(gs, f + 1, Len(gs))

\* Lines 164-179.
Authorize ==
    /\ pc = "authorize"
    /\ LET es == GrantEntries(GrantFor(recipients[i + 1].address, userDf))
       IN  /\ grants' = grants \o es
           /\ calls' = Append(calls, AuthorizeCall(es))
           /\ rets' = Append(rets, "ok")
    /\ pc' = "transfer"
    /\ UNCHANGED << args, undBal, dfBal, locals, events, err >>

\* Variant of PushBack: the pair is put in front.
PushFront(rs, pair) == << pair >> \o rs

\* results.push_back((r.address, user_df))
PushBack(rs, pair) == Append(rs, pair)

\* Lines 180-186.
Transfer ==
    /\ pc = "transfer"
    /\ LET r == recipients[i + 1]
           d == CheckedAdd(distributed, userDf)
       IN  /\ calls' = Append(calls, TransferCall(SELF, r.address, userDf))
           /\ \E accepted \in BOOLEAN, wraps \in BOOLEAN :
                 LET t == TokenTransfer(dfBal, SELF, r.address, userDf, wraps)
                 IN
                 IF ~accepted \/ t = None
                 THEN /\ Panic("transfer failed")
                      /\ rets' = Append(rets, "failed")
                 ELSE IF d = None
                 THEN /\ Panic("distributed overflow")
                      /\ rets' = Append(rets, "ok")
                 ELSE /\ rets' = Append(rets, "ok")
                      /\ dfBal' = t[1]
                      /\ distributed' = d[1]
                      /\ results' = PushBack(results, << r.address, userDf >>)
                      /\ i' = i + 1
                      /\ grants' = ConsumeGrant(grants, VAULT,
                                     TransferCall(SELF, r.address, userDf))
                      /\ pc' = IF i + 1 = Len(recipients)
                               THEN "done" ELSE "share"
                      /\ UNCHANGED << args, undBal, total, minted,
                                      assetAmounts, basis, userDf, events,
                                      err >>

Next ==
    \/ RequireAuth
    \/ ValidateInput
    \/ Deposit
    \/ PullMinted
    \/ Valuation
    \/ ComputeShare
    \/ Authorize
    \/ Transfer

Spec == Init /\ [][Next]_vars

\* ------------------------------------------------------------------------
\* Invocations one after another on the same ledger
\* ------------------------------------------------------------------------

MaxInvocations == 2

\* The requests submitted to the contract.
CallLists ==
    {<< [address |-> 13, amount |-> 1] >>,
     << [address |-> 13, amount |-> 2], [address |-> 14, amount |-> 1] >>,
     << [address |-> 14, amount |-> 1], [address |-> 14, amount |-> 1] >>,
     << [address |-> SELF, amount |-> 1], [address |-> 13, amount |-> 1] >>}

CallAuthTrees ==
    {[signer |-> "caller", sub |-> SubInvocations],
     [signer |-> "none", sub |-> {}]}

InitCalls ==
    /\ Init
    /\ auth \in CallAuthTrees
    /\ recipients \in CallLists
    /\ preDf = << >>

\* The environment runs an invocation to its return or its abort before it
\* starts another one.
InvocationOver == pc \in {"done", "aborted"}

\* The environment starts the next submitted invocation of distribute on the
\* ledger as it stands.  The locals of distribute are not yet assigned: they
\* hold whatever the invocation before left.
NextInvocation ==
    /\ InvocationOver
    /\ invocation < MaxInvocations
    /\ invocation' = invocation + 1
    /\ committed' = IF pc \in {"done", "aborted"}
                    THEN << undBal, dfBal >> ELSE committed
    /\ auth' \in CallAuthTrees
    /\ recipients' \in CallLists
    /\ preUnd' = undBal
    /\ preDf' = dfBal
    /\ pc' = "require_auth"
    /\ grants' = << >>
    /\ events' = << >>
    /\ calls' = << >>
    /\ rets' = << >>
    /\ err' = "none"
    /\ UNCHANGED << undBal, dfBal, locals >>

NextCalls ==
    \/ Next
    \/ NextInvocation

SpecCalls == InitCalls /\ [][NextCalls]_vars

\* ------------------------------------------------------------------------
\* Properties
\* ------------------------------------------------------------------------

\* Sum of the claim units of the first k pairs of rs.
RECURSIVE SumUnits(_, _)
SumUnits(rs, k) == IF k = 0 THEN 0 ELSE rs[k][2] + SumUnits(rs, k - 1)

\* Sum of the amounts of the first k recipients of rs.
RECURSIVE SumAmounts(_, _)
SumAmounts(rs, k) == IF k = 0 THEN 0 ELSE rs[k].amount + SumAmounts(rs, k - 1)

N == Len(recipients)

Succeeded == pc = "done"

Aborted == pc = "aborted"

\* C1 (conservation): when distribute returns, the claim units of the
\* returned pairs sum to the amount the vault's deposit reported as minted,
\* whatever that amount is.
C1_Conservation == Succeeded => SumUnits(results, Len(results)) = minted

\* A call with three recipients returned, the vault having minted more than
\* the summed amounts and the floor shares leaving a remainder.
C1_Witness ==
    /\ Succeeded
    /\ N = 3
    /\ minted > total
    /\ results[3][2] > (recipients[3].amount * minted) \div basis

\* C2 (floor-rounding law): when distribute returns, every recipient but
\* the last has floor(amount * minted / basis) and the last has minted minus
\* the sum of the earlier shares.
C2_FloorRoundingLaw ==
    Succeeded =>
        /\ Len(results) = N
        /\ \A k \in 1..(N - 1) :
              /\ basis # 0
              /\ results[k][2] = (recipients[k].amount * minted) \div basis
        /\ results[N][2] = minted - SumUnits(results, N - 1)

\* A call returned in which a non-last share was rounded down.
C2_Witness ==
    /\ Succeeded
    /\ N >= 2
    /\ basis > 0
    /\ (recipients[1].amount * minted) % basis # 0
    /\ results[1][2] > 0

\* C3 (atomicity): a call that aborts leaves every balance of the
\* underlying asset and of df tokens at its value before the call and no
\* event; after a call the number of recipients paid is 0 or N.
C3_Atomicity ==
    /\ Aborted =>
          /\ undBal = preUnd
          /\ dfBal = preDf
          /\ Len(events) = 0
          /\ Len(results) = 0
    /\ Succeeded => Len(results) = N

\* A call aborted at the transfer to its second recipient, after the first
\* recipient had been paid.
C3_Witness ==
    /\ Aborted
    /\ err = "transfer failed"
    /\ i = 1
    /\ Len(calls) = 7
    /\ calls[5].args[3] > 0

\* The record the contract is to publish for the k-th recipient.
DistributedEvent(k) ==
    [asset |-> ASSET, vault |-> VAULT, user |-> recipients[k].address,
     underlying_amount |-> recipients[k].amount, df_tokens |-> results[k][2]]

\* C4 (event emission): when distribute returns, the contract has published
\* one Distributed record per recipient, in input order, each with the
\* recipient's account, its input amount and the df tokens transferred.
C4_EventPerRecipient ==
    Succeeded =>
        /\ Len(events) = N
        /\ \A k \in 1..N : events[k] = DistributedEvent(k)

\* C5 (zero residual custody): when distribute returns, the contract's own
\* balances of df tokens and of the underlying asset are what they were
\* before the call.
C5_ZeroResidualCustody ==
    Succeeded =>
        /\ Bal(dfBal, SELF) = Bal(preDf, SELF)
        /\ Bal(undBal, SELF) = Bal(preUnd, SELF)

\* The request is rejected by one of the rules on the recipient list.
InvalidList(rs) ==
    \/ Len(rs) = 0
    \/ Len(rs) > MAX_RECIPIENTS
    \/ \E k \in 1..Len(rs) : rs[k].amount <= 0
    \/ \E j, k \in 1..Len(rs) : j < k /\ rs[j].address = rs[k].address
    \/ \E k \in 1..Len(rs) : rs[k].address = VAULT

\* The panics of the validation stage.
ValidationErrors ==
    {"recipients must not be empty", "too many recipients (max 100)",
     "each recipient amount must be positive",
     "recipient address must not be the vault",
     "duplicate recipient address", "total overflow"}

ValidationOver == pc \notin {"require_auth", "validate"}

\* C6 (validation precedes every external call): an authorized request
\* whose list is empty, longer than 100, or holds a non-positive amount, a
\* repeated account or the vault's account aborts in the validation stage
\* with no call made to the vault.
C6_ValidationPrecedesCalls ==
    (auth.signer = "caller" /\ InvalidList(recipients) /\ ValidationOver) =>
        /\ Aborted
        /\ err \in ValidationErrors
        /\ Len(calls) = 0

\* A list whose second entry repeats the first account was rejected.
C6_Witness ==
    /\ Aborted
    /\ err = "duplicate recipient address"
    /\ N >= 2
    /\ recipients[1].address = recipients[2].address
    /\ Len(calls) = 0

\* Some prefix of the amounts sums to more than the largest i128.
PrefixOverflow(rs) == \E k \in 1..Len(rs) : SumAmounts(rs, k) > I128_MAX

\* C7 as stated (overflow rejection): an authorized request with an
\* overflowing prefix sum aborts with the overflow error before the
\* deposit.
C7_OverflowGivesArithmeticError ==
    (auth.signer = "caller" /\ PrefixOverflow(recipients) /\ ValidationOver) =>
        /\ Aborted
        /\ err = "total overflow"
        /\ Len(calls) = 0

\* The first position at which the running sum overflows.
FirstOverflow(rs) ==
    CHOOSE k \in 1..Len(rs) :
        /\ SumAmounts(rs, k) > I128_MAX
        /\ \A j \in 1..(k - 1) : SumAmounts(rs, j) <= I128_MAX

\* No other rule rejects the list at or before position k.
ValidUpTo(rs, k) ==
    /\ Len(rs) <= MAX_RECIPIENTS
    /\ \A j \in 1..k :
          /\ rs[j].amount > 0
          /\ rs[j].address # VAULT
          /\ \A h \in 1..(j - 1) : rs[h].address # rs[j].address

\* C7 amended: an authorized request with an overflowing prefix sum aborts
\* in the validation stage before the deposit, with the overflow error when
\* no other rule rejects the list at or before the overflowing position;
\* a total that passes validation is the true sum.
C7_OverflowRejected ==
    /\ (auth.signer = "caller" /\ PrefixOverflow(recipients) /\ ValidationOver)
          => /\ Aborted
             /\ err \in ValidationErrors
             /\ Len(calls) = 0
             /\ ValidUpTo(recipients, FirstOverflow(recipients))
                    => err = "total overflow"
    /\ (ValidationOver /\ err \notin ValidationErrors /\ err # "unauthorized")
          => total = SumAmounts(recipients, N) /\ total <= I128_MAX

\* A valid first entry of the largest amount followed by a valid entry was
\* rejected for overflow.
C7_Witness ==
    /\ Aborted
    /\ err = "total overflow"
    /\ N >= 2
    /\ recipients[1].amount = I128_MAX
    /\ recipients[2].amount > 0
    /\ Len(calls) = 0

\* C8 (single recipient): a call with one recipient that returns gives that
\* recipient the whole minted amount, whatever the basis.
C8_SingleRecipientGetsAll ==
    (Succeeded /\ N = 1) =>
        results = << << recipients[1].address, minted >> >>

\* A single-recipient call returned with a minted amount that differs from
\* the input amount and from what the floor rule would give.
C8_Witness ==
    /\ Succeeded
    /\ N = 1
    /\ minted # recipients[1].amount
    /\ basis > 0
    /\ (recipients[1].amount * minted) \div basis # minted

\* C9 (order and length): when distribute returns, the result has as many
\* pairs as there are recipients and its k-th pair names the k-th account.
C9_OrderAndLength ==
    Succeeded =>
        /\ Len(results) = N
        /\ \A k \in 1..N : results[k][1] = recipients[k].address

\* A call with three recipients returned.
C9_Witness ==
    /\ Succeeded
    /\ N = 3
    /\ results[1][1] # results[3][1]

\* C10 (authorization first): a call the caller did not sign gets no
\* further than the authorization check: it aborts there, before
\* validation, with no call made to the vault.
C10_AuthorizationFirst ==
    auth.signer # "caller" =>
        /\ pc \in {"require_auth", "aborted"}
        /\ Aborted => err = "unauthorized"
        /\ Len(calls) = 0
        /\ undBal = preUnd
        /\ dfBal = preDf

\* A call signed by another address, with a list validation would reject,
\* aborted at the authorization check.
C10_Witness ==
    /\ Aborted
    /\ auth.signer = "other"
    /\ InvalidList(recipients)
    /\ err = "unauthorized"

\* C11 (authorization completeness): a call for which the caller signed
\* the distribute invocation and no nested invocation never returns; it
\* aborts with every balance as before the call.
C11_AuthorizationCompleteness ==
    (auth = [signer |-> "caller", sub |-> {}]) =>
        /\ ~Succeeded
        /\ Aborted => (undBal = preUnd /\ dfBal = preDf)

\* The calls of the log made to the vault's deposit function.
DepositCalls == {j \in 1..Len(calls) : calls[j].fn = "deposit"}

\* C13 (deposit request shape): a call that passed validation invokes the
\* vault's deposit exactly once, as the first external call, with desired
\* and minimum amounts both the sum of the recipient amounts, the caller as
\* depositor and the invest flag true; a call that did not pass validation
\* invokes no deposit.
C13_DepositRequestShape ==
    /\ \A j \in DepositCalls :
          /\ j = 1
          /\ calls[j].args = << << SumAmounts(recipients, N) >>,
                                << SumAmounts(recipients, N) >>, CALLER, TRUE >>
    /\ (ValidationOver /\ err \notin ValidationErrors /\ err # "unauthorized"
          /\ pc # "deposit")
          => Cardinality(DepositCalls) = 1
    /\ (pc \in {"require_auth", "validate", "deposit"} \/ err \in ValidationErrors
          \/ err = "unauthorized")
          => DepositCalls = {}

\* A three-recipient call returned after one deposit of the summed amounts.
C13_Witness ==
    /\ Succeeded
    /\ N = 3
    /\ recipients[1].amount # recipients[2].amount
    /\ calls[1] = [fn |-> "deposit", args |-> << << total >>, << total >>, CALLER, TRUE >>]
    /\ total = SumAmounts(recipients, N)
    /\ Cardinality(DepositCalls) = 1

\* C14 (recipient balances after success): when distribute returns, each
\* recipient's df balance is its balance before the call plus the units
\* returned for it, and the caller, who is no recipient, holds the df balance
\* it held before the call.
C14_RecipientBalances ==
    Succeeded =>
        /\ \A k \in 1..N :
              Bal(dfBal, recipients[k].address)
                  = Bal(preDf, recipients[k].address) + results[k][2]
        /\ (\A k \in 1..N : recipients[k].address # CALLER)
              => Bal(dfBal, CALLER) = Bal(preDf, CALLER)

\* C15 (exact split at a 1:1 rate): when the vault mints as many units as
\* the summed amounts and values them at that same sum, every recipient is
\* returned exactly its input amount.
C15_ExactSplitAtPar ==
    (Succeeded /\ minted = total /\ basis = total) =>
        \A k \in 1..N : results[k] = << recipients[k].address, recipients[k].amount >>

\* Three recipients with unequal amounts were paid at a 1:1 rate.
C15_Witness ==
    /\ Succeeded
    /\ N = 3
    /\ minted = total
    /\ basis = total
    /\ recipients[1].amount # recipients[2].amount
    /\ \A k \in 1..N : results[k][2] = recipients[k].amount

\* C16 (non-negative remainder): after validation the shares handed to the
\* earlier recipients never sum to more than the minted amount, no computed
\* share is negative, and no transfer is requested with a negative amount.
C16_NonNegativeRemainder ==
    /\ distributed <= minted
    /\ (pc \in {"authorize", "transfer"}) => userDf >= 0
    /\ \A j \in 1..Len(calls) :
          calls[j].fn = "transfer" => calls[j].args[3] >= 0
    /\ \A k \in 1..Len(results) : results[k][2] >= 0

\* The error the checks report when each rule is applied to the whole list
\* before the next rule: positive amounts, duplicates, vault, overflow.
RuleByRuleError(rs) ==
    IF Len(rs) = 0 THEN "recipients must not be empty"
    ELSE IF Len(rs) > MAX_RECIPIENTS THEN "too many recipients (max 100)"
    ELSE IF \E k \in 1..Len(rs) : rs[k].amount <= 0
    THEN "each recipient amount must be positive"
    ELSE IF \E j, k \in 1..Len(rs) : j < k /\ rs[j].address = rs[k].address
    THEN "duplicate recipient address"
    ELSE IF \E k \in 1..Len(rs) : rs[k].address = VAULT
    THEN "recipient address must not be the vault"
    ELSE IF PrefixOverflow(rs) THEN "total overflow"
    ELSE "ok"

\* C17 as stated (validation check order): an authorized request that breaks
\* a rule aborts with the error of the earliest broken rule in the order
\* non-empty, at most 100, positive amounts, no duplicates, not the vault,
\* no overflow.
C17_RuleByRuleOrder ==
    (auth.signer = "caller" /\ ValidationOver /\ RuleByRuleError(recipients) # "ok")
        => Aborted /\ err = RuleByRuleError(recipients)

\* Position k of rs breaks a rule.
BadAt(rs, k) ==
    \/ rs[k].amount <= 0
    \/ rs[k].address = VAULT
    \/ \E h \in 1..(k - 1) : rs[h].address = rs[k].address
    \/ SumAmounts(rs, k) > I128_MAX

\* The error of the first rule position k breaks, in the order amount, vault,
\* duplicate, overflow.
ErrorAt(rs, k) ==
    IF rs[k].amount <= 0 THEN "each recipient amount must be positive"
    ELSE IF rs[k].address = VAULT THEN "recipient address must not be the vault"
    ELSE IF \E h \in 1..(k - 1) : rs[h].address = rs[k].address
    THEN "duplicate recipient address"
    ELSE "total overflow"

\* The error of the first position that breaks a rule, after the two checks
\* on the length.
PositionWiseError(rs) ==
    IF Len(rs) = 0 THEN "recipients must not be empty"
    ELSE IF Len(rs) > MAX_RECIPIENTS THEN "too many recipients (max 100)"
    ELSE IF \E k \in 1..Len(rs) : BadAt(rs, k)
    THEN ErrorAt(rs, CHOOSE k \in 1..Len(rs) :
                        BadAt(rs, k) /\ \A h \in 1..(k - 1) : ~BadAt(rs, h))
    ELSE "ok"

\* C17 amended: the error reported is that of the earliest failing check in
\* the order list non-empty, length at most 100, then for each recipient in
\* input order: amount positive, account not the vault, account not seen
\* before, running sum without overflow; a list breaking no rule passes
\* validation.
C17_PositionWiseOrder ==
    (auth.signer = "caller" /\ ValidationOver) =>
        IF PositionWiseError(recipients) = "ok"
        THEN err \notin ValidationErrors
        ELSE Aborted /\ err = PositionWiseError(recipients) /\ Len(calls) = 0

\* A list with a repeated account at position 2 and a non-positive amount at
\* position 3 was rejected for the repeated account.
C17_Witness ==
    /\ Aborted
    /\ N = 3
    /\ recipients[2].address = recipients[1].address
    /\ recipients[1].amount > 0
    /\ recipients[2].amount > 0
    /\ recipients[3].amount <= 0
    /\ err = "duplicate recipient address"

\* The calls of the log in which the contract sends df tokens on.
ContractTransfers ==
    {j \in 1..Len(calls) : calls[j].fn = "transfer" /\ calls[j].args[1] = SELF}

\* The calls of the log that issue grants.
GrantCalls ==
    {j \in 1..Len(calls) : calls[j].fn = "authorize_as_current_contract"}

\* The recipient whose transfer is the j-th call of the log: the deposit,
\* the pull and the valuation come first, then two calls per recipient.
RecipientOfCall(j) == (j - 3) \div 2

\* C18 (grant matches transfer): each transfer the contract makes to a
\* recipient is the call right after an authorize_as_current_contract call
\* that issues exactly one entry, naming the vault's transfer function, the
\* arguments (contract, that recipient's account, that recipient's share)
\* and no nested entries; the transfer has those same arguments, and every
\* grant call is followed at once by its transfer.
C18_GrantMatchesTransfer ==
    /\ \A j \in ContractTransfers :
          /\ j - 1 \in GrantCalls
          /\ calls[j - 1].args =
                << << [contract |-> VAULT, fn_name |-> "transfer",
                       args |-> calls[j].args,
                       sub_invocations |-> << >>] >> >>
          /\ LET k == RecipientOfCall(j)
             IN  /\ j = 3 + 2 * k
                 /\ k \in 1..N
                 /\ calls[j].args[2] = recipients[k].address
                 /\ (k <= Len(results)) => calls[j].args[3] = results[k][2]
                 /\ (k = i + 1) => calls[j].args[3] = userDf
    /\ \A j \in GrantCalls :
          IF j = Len(calls) THEN pc = "transfer" ELSE j + 1 \in ContractTransfers

\* Two recipients were paid; the second grant and its transfer closed the log.
C18_Witness ==
    /\ Succeeded
    /\ N = 2
    /\ Len(calls) = 7
    /\ results[2][2] > 0
    /\ calls[6] = [fn |-> "authorize_as_current_contract",
                   args |-> << << [contract |-> VAULT, fn_name |-> "transfer",
                                   args |-> << SELF, recipients[2].address,
                                               results[2][2] >>,
                                   sub_invocations |-> << >>] >> >>]
    /\ calls[7] = [fn |-> "transfer",
                   args |-> << SELF, recipients[2].address, results[2][2] >>]

\* C19 (grants are single-use): at most one grant is outstanding, and only
\* between its issue and its transfer; the grants issued are as many as the
\* contract's transfers plus the one outstanding, so each is used by exactly
\* one transfer and transfers never outnumber grants; none is left when the
\* invocation returns or aborts.
C19_GrantsSingleUse ==
    /\ Len(grants) <= 1
    /\ (grants # << >>) =>
          /\ pc = "transfer"
          /\ grants = << GrantFor(recipients[i + 1].address, userDf) >>
    /\ Cardinality(GrantCalls) = Cardinality(ContractTransfers) + Len(grants)
    /\ Cardinality(ContractTransfers) <= Cardinality(GrantCalls)
    /\ (Succeeded \/ Aborted) => grants = << >>

\* The second of two grants is outstanding after the first was used up.
C19_Witness ==
    /\ pc = "transfer"
    /\ i = 1
    /\ Len(grants) = 1
    /\ Cardinality(GrantCalls) = 2
    /\ Cardinality(ContractTransfers) = 1
    /\ userDf > 0

\* C20 (pipeline order): no deposit before validation is over, no valuation
\* or share before the deposit and the pull, recipients handled one at a
\* time in input order, each with grant, then transfer, then its
\* distribution record, before the next one starts.
C20_PipelineOrder ==
    /\ (pc \in {"require_auth", "validate", "deposit"}) => Len(calls) = 0
    /\ \A j \in 1..Len(calls) :
          /\ calls[j].fn = "deposit" => j = 1
          /\ calls[j].fn = "get_asset_amounts_per_shares" => j = 3
          /\ j \in GrantCalls =>
                /\ j = 2 + 2 * RecipientOfCall(j + 1) /\ j >= 4
                /\ calls[j].args[1][1].args[2]
                      = recipients[RecipientOfCall(j + 1)].address
          /\ j \in ContractTransfers =>
                /\ j = 3 + 2 * RecipientOfCall(j) /\ j >= 5
                /\ calls[j].args[2] = recipients[RecipientOfCall(j)].address
    /\ (pc \in {"share", "done"}) =>
          /\ Len(calls) = 3 + 2 * i
          /\ Len(results) = i
          /\ Len(events) = i

\* C21 (deposit failure stops everything): when the vault's deposit fails,
\* for want of caller funds or by the vault's own rejection, the invocation
\* aborts having made the deposit call only: no grant is issued, no transfer
\* to a recipient is attempted, and every balance is as before the call.
C21_DepositFailureStops ==
    (Len(rets) >= 1 /\ (rets[1] = "failed" \/ err = "deposit failed")) =>
        /\ Aborted
        /\ Len(calls) = 1
        /\ calls[1].fn = "deposit"
        /\ GrantCalls = {}
        /\ ContractTransfers = {}
        /\ grants = << >>
        /\ undBal = preUnd /\ dfBal = preDf

\* A fully authorized deposit of more than the caller owns failed.
C21_Witness ==
    /\ Aborted
    /\ err = "deposit failed"
    /\ rets = << "failed" >>
    /\ auth = [signer |-> "caller", sub |-> SubInvocations]
    /\ Bal(preUnd, CALLER) < total
    /\ Len(calls) = 1

\* Every entry of rs passes the per-recipient checks.
AllEntriesValid(rs) == ValidUpTo(rs, Len(rs)) /\ ~PrefixOverflow(rs)

\* C22 (recipient-count bounds): an authorized request with 1 or with 100
\* otherwise-valid recipients passes validation; one with 0 or with 101
\* recipients is rejected for its length, whatever its entries are.
C22_RecipientCountBounds ==
    (auth.signer = "caller" /\ ValidationOver) =>
        /\ (N \in {1, 100} /\ AllEntriesValid(recipients))
              => err \notin ValidationErrors
        /\ N = 0 => (Aborted /\ err = "recipients must not be empty")
        /\ N = 101 => (Aborted /\ err = "too many recipients (max 100)")

\* A list of 100 recipients was paid in full.
C22_Witness ==
    /\ Succeeded
    /\ N = 100
    /\ Len(results) = 100
    /\ minted = 100

\* C25 (proportionality among non-last recipients): in a call that
\* returned, two recipients other than the last with equal amounts are
\* returned equal units, and one with a larger amount is never returned
\* fewer units than one with a smaller amount.
C25_NonLastProportionality ==
    Succeeded =>
        \A j, k \in 1..(N - 1) :
            /\ recipients[j].amount = recipients[k].amount
                  => results[j][2] = results[k][2]
            /\ recipients[j].amount >= recipients[k].amount
                  => results[j][2] >= results[k][2]

\* C26 (custody accounting during the loop): the second call of the
\* invocation moves exactly the minted amount from the caller to the
\* contract, before any transfer to a recipient; between recipients the
\* counter `distributed` is the sum of the units returned so far and equals
\* the minted amount minus what the contract still holds of it.
C26_CustodyAccounting ==
    /\ \A j \in ContractTransfers :
          j > 2 /\ calls[2] = [fn |-> "transfer", args |-> << CALLER, SELF, minted >>]
    /\ (pc \in {"share", "done"}) =>
          /\ distributed = SumUnits(results, Len(results))
          /\ distributed = minted - (Bal(dfBal, SELF) - Bal(preDf, SELF))

\* C27 (dust bound): when the valuation basis equals the summed amounts, the
\* last of n recipients is returned at least floor(amount * minted / basis)
\* units and at most n - 1 more.
C27_DustBound ==
    (Succeeded /\ basis = total) =>
        LET f == (recipients[N].amount * minted) \div basis
        IN  /\ results[N][2] >= f
            /\ results[N][2] <= f + (N - 1)

\* The last of three recipients absorbed two units of dust.
C27_Witness ==
    /\ Succeeded
    /\ N = 3
    /\ basis = total
    /\ results[3][2] = (recipients[3].amount * minted) \div basis + 2

\* The calls of the log that ask the vault for the valuation.
ValuationCalls ==
    {j \in 1..Len(calls) : calls[j].fn = "get_asset_amounts_per_shares"}

\* The valuation has been asked for.
ValuationAsked == Len(calls) >= 3

\* C28 (valuation query): the valuation is asked for once per call, as the
\* third call, after the deposit and the move of the minted units to the
\* contract, with the minted amount as its argument; the basis is the first
\* element of the answer, and an answer with no element aborts the
\* invocation with every balance restored, as does a query that fails.
C28_ValuationQuery ==
    /\ \A j \in ValuationCalls :
          /\ j = 3
          /\ calls[j].args = << minted >>
          /\ calls[1].fn = "deposit"
          /\ calls[2] = [fn |-> "transfer", args |-> << CALLER, SELF, minted >>]
    /\ (pc \in {"share", "authorize", "transfer", "done"}) =>
          /\ Cardinality(ValuationCalls) = 1
          /\ Len(assetAmounts) >= 1
          /\ basis = assetAmounts[1]
    /\ (ValuationAsked /\ assetAmounts = << >>) =>
          /\ Aborted
          /\ rets[3] \in {"empty", "failed"}
          /\ rets[3] = "empty" <=> err = "vault must have at least one asset"
          /\ rets[3] = "failed" <=> err = "valuation failed"
          /\ Len(calls) = 3
          /\ undBal = preUnd /\ dfBal = preDf

\* The vault answered with two elements and the call went on with the first.
C28_Witness ==
    /\ Succeeded
    /\ Len(assetAmounts) = 2
    /\ assetAmounts[1] # assetAmounts[2]
    /\ basis = assetAmounts[1]
    /\ Cardinality(ValuationCalls) = 1
    /\ calls[3].args = << minted >>
    /\ minted > 0

\* C29 (zero valuation basis): when the vault values the minted units at 0,
\* a call with two or more recipients aborts at the first share with every
\* balance restored, no grant issued and no transfer to a recipient made; a
\* call with one recipient returns the minted amount.
C29_ZeroBasis ==
    (assetAmounts # << >> /\ basis = 0) =>
        /\ (N >= 2) =>
              /\ pc \in {"share", "aborted"}
              /\ i = 0
              /\ Len(calls) = 3
              /\ Aborted =>
                    /\ err = "fixed point arithmetic error"
                    /\ undBal = preUnd /\ dfBal = preDf
        /\ (N = 1 /\ Succeeded) => results = << << recipients[1].address, minted >> >>

\* A two-recipient call was aborted at the first share for a zero basis.
C29_Witness ==
    /\ Aborted
    /\ N = 2
    /\ assetAmounts = << 0 >>
    /\ minted > 0
    /\ err = "fixed point arithmetic error"
    /\ Len(calls) = 3
    /\ dfBal = preDf

\* What distribute returns, or that it aborts.
Returned(rs) == [done |-> TRUE, results |-> rs]

AbortedOutcome == [done |-> FALSE, results |-> << >>]

\* The outcome of the loop from recipient k on, given the minted amount m,
\* the basis b, how the calls returned (rt) and the units handed out so far.
RECURSIVE OutcomeFrom(_, _, _, _, _, _, _)
OutcomeFrom(rs, m, b, rt, k, dist, out) ==
    IF k > Len(rs) THEN Returned(out)
    ELSE LET s == ShareOf(rs[k].amount, IsLast(k - 1, Len(rs)), m, b, dist)
             d == CheckedAdd(dist, s.df)
         IN  IF s.err # "ok" THEN AbortedOutcome
             ELSE IF ~(Len(rt) >= 3 + 2 * k /\ rt[3 + 2 * k] = "ok")
             THEN AbortedOutcome
             ELSE IF d = None THEN AbortedOutcome
             ELSE OutcomeFrom(rs, m, b, rt, k + 1, d[1],
                              Append(out, << rs[k].address, s.df >>))

\* The outcome of distribute as a function of its arguments (rs), the
\* authorization supplied (a) and the vault's responses: the minted amount m,
\* the valuation answer ans, and how each call returned (rt).
OutcomeOf(a, rs, m, ans, rt) ==
    IF ~Authorized(a) THEN AbortedOutcome
    ELSE IF Validate(rs, VAULT).err # "ok" THEN AbortedOutcome
    ELSE IF ~(Len(rt) >= 3 /\ rt[1] = "ok" /\ rt[2] = "ok" /\ rt[3] = "ok")
    THEN AbortedOutcome
    ELSE OutcomeFrom(rs, m, ans[1], rt, 1, 0, << >>)

\* C23 (no cross-call state): whatever invocations ran before on the same
\* ledger, an invocation that ended has the outcome its arguments, its
\* authorization and the vault's responses alone determine.
C23_NoCrossCallState ==
    (Succeeded \/ Aborted) =>
        [done |-> Succeeded, results |-> results]
            = OutcomeOf(auth, recipients, minted, assetAmounts, rets)

\* A second invocation returned after a first one had paid recipients.
C23_Witness ==
    /\ invocation = 2
    /\ Succeeded
    /\ committed[2] # << >>
    /\ N = 2
    /\ results[1][2] > 0
    /\ results[2][2] > 0

\* The panics of the share computation and of the running counter.
ArithmeticErrors ==
    {"fixed point arithmetic error", "underflow distributing last recipient",
     "distributed overflow"}

\* C12 (sufficient authorization tree): with the caller's signature on
\* distribute and on the single nested invocation
\* asset.transfer(caller, contract, total), the authorization check of
\* distribute passes, and a call that the vault serves throughout aborts
\* only on an invalid list or on the arithmetic; every transfer to a
\* recipient is covered by a grant the contract issued itself in the call
\* before it.
C12_TestTreeSuffices ==
    (auth = TestAuthTree) =>
        /\ err # "unauthorized"
        /\ (Aborted /\ \A j \in 1..Len(rets) : rets[j] = "ok")
              => err \in ValidationErrors \cup ArithmeticErrors
        /\ \A j \in ContractTransfers :
              /\ j - 1 \in GrantCalls
              /\ Covers(calls[j - 1].args[1][1], VAULT, calls[j])

\* The call signed with that tree paid two recipients.
C12_Witness ==
    /\ Succeeded
    /\ auth = TestAuthTree
    /\ N = 2
    /\ results[1][2] > 0
    /\ results[2][2] > 0
    /\ Len(calls) = 7

====
